---- MODULE Spec2Model ----
(***************************************************************************)
(* Home Assistant event session (HAWatcherService / HAListenerService) and *)
(* its rule store (watcher-store / listener-store).                        *)
(*                                                                         *)
(* The session is a single JavaScript object driven by an event loop: each *)
(* action below is one event-loop task (a host call, a socket callback, a  *)
(* timer callback or the continuation of an awaited file operation) and    *)
(* runs the code of that task to its next suspension point.                *)
(***************************************************************************)
EXTENDS Integers, Sequences, FiniteSets, TLC

(***************************************************************************)
(* Bounds of the model.                                                    *)
(***************************************************************************)
\* Sockets and reconnect timers that can be live at the same time.
MaxSockets == 2
\* Keepalive interval timers that can be pending at the same time.
MaxIntervals == 2
\* Largest outgoing message id the model lets the session reach.
MaxMsgId == 2
\* Reconnects scheduled in a row, with no successful open in between.
MaxBackoff == 7
\* State-change events whose handler is started.
MaxEvents == 2
\* Calls of add, remove, load and save made on the store.
MaxOps == 2
\* Calls of callService made on the client.
MaxSvcCalls == 2
\* Calls of the tool ha_context_config.
MaxCtxCalls == 2

(***************************************************************************)
(* Program constants.                                                      *)
(***************************************************************************)
\* private reconnectDelay = 1000 (milliseconds)
InitialDelay == 1000
\* Math.min(this.reconnectDelay * 2, 30_000)
MaxDelay == 30000

\* null (no socket, no timer handle)
Null == 0
\* an optional rule field that is not set
Unset == "<unset>"
\* an absent or null state snapshot of an event
Absent == "<absent>"

Slots == 1..MaxSockets
TimeoutIds == 1..MaxSockets
IntervalIds == 1..MaxIntervals

Min(a, b) == IF a < b THEN a ELSE b
Lowest(S) == CHOOSE x \in S : \A y \in S : x <= y

(***************************************************************************)
(* The rule store file and the rules the model draws from.                 *)
(***************************************************************************)
Entities == {"light.bedroom", "binary_sensor.door"}
States == {"off", "on"}

W1 == [id |-> "w1", entityId |-> "light.bedroom", fromState |-> Unset,
       toState |-> "on", message |-> "m1", oneShot |-> TRUE,
       createdAt |-> "t0"]
W2 == [id |-> "w2", entityId |-> "light.bedroom", fromState |-> Unset,
       toState |-> Unset, message |-> "m2", oneShot |-> FALSE,
       createdAt |-> "t0"]
W3 == [id |-> "w3", entityId |-> "binary_sensor.door", fromState |-> "off",
       toState |-> "on", message |-> "m3", oneShot |-> TRUE,
       createdAt |-> "t0"]
Watchers == {W1, W2, W3}
WatcherIds == {w.id : w \in Watchers}

\* The sequences of distinct rules a store file can hold when the session starts.
InitialStores ==
  {<<>>} \cup {<<a>> : a \in Watchers}
         \cup {p \in Watchers \X Watchers : p[1] # p[2]}
         \cup {<<W1, W2, W3>>, <<W3, W2, W1>>}

(***************************************************************************)
(* The store file and its JSON form.                                       *)
(***************************************************************************)
\* type Watcher: the properties of a rule; fromState and toState are optional
RuleKeys ==
  {"id", "entityId", "fromState", "toState", "message", "oneShot", "createdAt"}
OptionalKeys == {"fromState", "toState"}

\* JSON.stringify of a rule: a property whose value is undefined is left out
ToJson(w) ==
  LET present == {k \in DOMAIN w : k \notin OptionalKeys \/ w[k] # Unset}
  IN [k \in present |-> w[k]]

\* Reading a property of a parsed object: undefined when the key is not there
Property(o, k) == IF k \in DOMAIN o THEN o[k] ELSE Unset

\* A parsed array element, used as a Watcher
FromJson(o) == [k \in RuleKeys |-> Property(o, k)]

\* A file that holds a JSON array of objects
ArrayFile(items) == [kind |-> "array", items |-> items]

\* No file at the path (nothing was ever saved)
MissingFile == [kind |-> "missing", items |-> <<>>]

\* Files that loadWatchers cannot use: no file; a file that holds a rule but
\* cannot be read; text with a rule in it that is not JSON; JSON that holds a
\* rule but is an object, not an array
BrokenFiles ==
  {MissingFile} \cup
    {[kind |-> k, items |-> <<ToJson(W1)>>] :
       k \in {"unreadable", "garbage", "object"}}

\* JSON.stringify(watchers, null, 2) + "\n"
Stringify(watchers) ==
  ArrayFile([i \in DOMAIN watchers |-> ToJson(watchers[i])])

\* Mutant: whatever rules the file has in it are returned.
LoadWatchersAnyKind(f) == [i \in DOMAIN f.items |-> FromJson(f.items[i])]

\* loadWatchers(stateDir): [] unless the file reads and parses to an array
LoadWatchers(f) ==
  IF f.kind = "array"
  THEN [i \in DOMAIN f.items |-> FromJson(f.items[i])]
  ELSE <<>>

\* Mutant: a save that appends to what the file holds.
SaveWatchersAppend(f, watchers) ==
  ArrayFile((IF f.kind = "array" THEN f.items ELSE <<>>)
              \o Stringify(watchers).items)

\* saveWatchers(stateDir, watchers): mkdir -p, then the file is overwritten
SaveWatchers(f, watchers) == Stringify(watchers)

\* The files the session can find when it starts.
InitialFiles == {Stringify(q) : q \in InitialStores} \cup BrokenFiles

(***************************************************************************)
(* HAClient: the access rules of callService.                              *)
(***************************************************************************)
\* Strings that are matched or split are sequences of characters.
Chars(word) ==
  CASE word = "light" -> <<"l", "i", "g", "h", "t">>
    [] word = "Light" -> <<"L", "i", "g", "h", "t">>
    [] word = "lock" -> <<"l", "o", "c", "k">>
    [] word = "bed" -> <<"b", "e", "d">>
    [] word = "door" -> <<"d", "o", "o", "r">>
    [] word = "." -> <<".">>
    [] word = "*" -> <<"*">>

LightBed == Chars("light") \o Chars(".") \o Chars("bed")
LockDoor == Chars("lock") \o Chars(".") \o Chars("door")

\* The entity ids a call can name.
EntityIds == {LightBed, LockDoor}

\* acl.blockedEntities of the plugin configuration: glob patterns
BlockedConfigs ==
  {<<>>,
   <<Chars("lock") \o Chars(".") \o Chars("*")>>,
   <<LockDoor>>,
   <<Chars("*")>>}

\* acl.writableDomains of the plugin configuration
WritableConfigs ==
  {<<>>, <<Chars("Light")>>, <<Chars("lock")>>,
   <<Chars("light"), Chars("lock")>>}

Uppers ==
  <<"A", "B", "C", "D", "E", "F", "G", "H", "I", "J", "K", "L", "M",
    "N", "O", "P", "Q", "R", "S", "T", "U", "V", "W", "X", "Y", "Z">>
Lowers ==
  <<"a", "b", "c", "d", "e", "f", "g", "h", "i", "j", "k", "l", "m",
    "n", "o", "p", "q", "r", "s", "t", "u", "v", "w", "x", "y", "z">>

\* String.prototype.toLowerCase()
ToLowerCase(s) ==
  [i \in DOMAIN s |->
     IF \E k \in DOMAIN Uppers : Uppers[k] = s[i]
     THEN Lowers[CHOOSE k \in DOMAIN Uppers : Uppers[k] = s[i]]
     ELSE s[i]]

\* The characters a dot of a regular expression does not match.
LineTerminators == {"\n", "\r"}

\* globToRegex(pattern): every character stands for itself (the ones that are
\* special in a regular expression are escaped), except the star, which
\* becomes ".*"; the expression is anchored at both ends.
GlobToRegex(pattern) ==
  [i \in DOMAIN pattern |->
     IF pattern[i] = "*" THEN [any |-> TRUE, char |-> "."]
     ELSE [any |-> FALSE, char |-> pattern[i]]]

\* RegExp.prototype.test for the expressions globToRegex builds
RECURSIVE RegexTest(_, _)
RegexTest(regex, value) ==
  IF regex = <<>> THEN value = <<>>
  ELSE IF Head(regex).any
       THEN \/ RegexTest(Tail(regex), value)
            \/ /\ value # <<>>
               /\ Head(value) \notin LineTerminators
               /\ RegexTest(regex, Tail(value))
       ELSE /\ value # <<>>
            /\ Head(value) = Head(regex).char
            /\ RegexTest(Tail(regex), Tail(value))

\* matchesAnyPattern(value, patterns)
MatchesAnyPattern(value, patterns) ==
  /\ patterns # <<>>
  /\ \E i \in DOMAIN patterns :
       \/ patterns[i] = <<"*">>
       \/ RegexTest(GlobToRegex(patterns[i]), value)

\* extractDomain(entityId): what comes before the first dot
ExtractDomain(entityId) ==
  LET dots == {i \in DOMAIN entityId : entityId[i] = "."}
  IN IF dots = {} THEN entityId
     ELSE SubSeq(entityId, 1,
                 (CHOOSE i \in dots : \A j \in dots : i <= j) - 1)

\* new HAClient(config): the fields the access rules read
NewClient(blockedEntities, writableDomains) ==
  [blockedPatterns |-> blockedEntities,
   writableDomains |->
      {ToLowerCase(writableDomains[i]) : i \in DOMAIN writableDomains}]

\* The client of a configuration without access rules (the default).
DefaultClient == NewClient(<<>>, <<>>)

\* ---- the context configuration of the agent
\* The patterns the agent can give to ha_context_config.
WatchPatterns == {"sensor.*", "light.*"}

\* A property read: the value, or nothing when the property is undefined.
Opt(obj, key) == IF key \in DOMAIN obj THEN <<obj[key]>> ELSE <<>>

\* a ?? b
Coalesce(a, b) == IF a # <<>> THEN a ELSE b

\* JSON.stringify of an object literal: a property whose value is undefined
\* is left out.
JsonObject(props) ==
  [k \in {key \in DOMAIN props : props[key] # <<>>} |-> props[k][1]]

\* { ...obj, key: value }
Spread(obj, key, value) ==
  [k \in DOMAIN obj \cup {key} |-> IF k = key THEN value ELSE obj[k]]

\* The object without properties.
EmptyObject == [k \in {} |-> <<>>]

\* The file context-config.json: missing, not JSON, or a JSON object.
NoConfigFile == [kind |-> "missing", json |-> EmptyObject]
ConfigFileOf(obj) == [kind |-> "object", json |-> obj]

\* cfg.context of the plugin configuration: not given, or given.
PluginContextConfigs ==
  {<<>>, <<[entityPatterns |-> <<"light.*">>, maxEntities |-> 20]>>}

\* The files an earlier run can have left.
InitialConfigFiles ==
  {NoConfigFile,
   [kind |-> "garbage", json |-> EmptyObject],
   ConfigFileOf([enabled |-> FALSE]),
   ConfigFileOf([enabled |-> TRUE, entityPatterns |-> <<"sensor.*">>,
                 maxEntities |-> 50, groupByArea |-> TRUE])}

VARIABLES
  \* ---- fields of the service object
  ws,               \* this.ws: the socket slot the session references, or Null
  msgId,            \* this.msgId
  reconnectTimer,   \* this.reconnectTimer: a timeout handle, or Null
  pingTimer,        \* this.pingTimer: an interval handle, or Null
  reconnectDelay,   \* this.reconnectDelay
  stopped,          \* this.stopped
  \* ---- the runtime the session runs in
  urlOk,            \* whether new WebSocket(wsUrl) accepts the configured url
  sockets,          \* the sockets the session created: readyState, and per
                    \* connection what was received and sent on it; tagged
                    \* is the id-tagged messages sent, in send order
  timeouts,         \* pending setTimeout handles
  intervals,        \* pending setInterval handles
  \* ---- the rule store file and the event handlers in flight
  store,            \* the file watchers.json
  handlers,         \* the handleStateChanged invocations, in receipt order
  received,         \* number of state-change events whose handler was started
  ignored,          \* a state-change event was dropped by the checks at the
                    \* top of handleStateChanged
  \* ---- history
  delays,           \* delays of the reconnects scheduled since the last open
  failedBeforeOpen, \* the last open followed at least one scheduled reconnect
  attempts,         \* parity of the number of new WebSocket(...) calls
  discarded,        \* a result, a pong or an unparsable payload was received
  unhandled,        \* a promise of handleMessage was rejected: nothing awaits
                    \* or catches it
  overlap,          \* an event was received, or a store call made, while a
                    \* handler or a store call was suspended on the file
  \* ---- calls of the store module's functions
  matchCall,        \* a call of matchesWatcher: its arguments and its result
  ops,              \* the calls of addWatcher, removeWatcher, loadWatchers
                    \* and saveWatchers, in call order
  \* ---- the Home Assistant client
  client,           \* the HAClient: blockedPatterns and writableDomains
  requests,         \* the service requests sent to Home Assistant, in order
  svcCalls,         \* the calls of callService, in call order
  \* ---- the context configuration tool
  pluginContextConfig, \* cfg.context
  configFile,       \* the file context-config.json
  ctxCalls          \* the calls of ha_context_config, in call order

connVars == <<ws, msgId, reconnectTimer, pingTimer, reconnectDelay, stopped,
              urlOk, sockets, timeouts, intervals, delays, failedBeforeOpen,
              attempts, discarded, unhandled>>
eventVars == <<store, handlers, received, ignored, overlap>>
callVars == <<matchCall, ops>>
toolVars == <<client, requests, svcCalls, pluginContextConfig, configFile,
              ctxCalls>>
vars == <<connVars, eventVars, callVars, toolVars>>

(***************************************************************************)
(* The connection state as one value, so that the methods of the service   *)
(* compose the way they call each other.                                   *)
(***************************************************************************)
World ==
  [ws |-> ws, msgId |-> msgId, reconnectTimer |-> reconnectTimer,
   pingTimer |-> pingTimer, reconnectDelay |-> reconnectDelay,
   stopped |-> stopped, sockets |-> sockets, timeouts |-> timeouts,
   intervals |-> intervals, delays |-> delays,
   failedBeforeOpen |-> failedBeforeOpen, attempts |-> attempts,
   discarded |-> discarded, unhandled |-> unhandled]

Becomes(w) ==
  /\ ws' = w.ws
  /\ msgId' = w.msgId
  /\ reconnectTimer' = w.reconnectTimer
  /\ pingTimer' = w.pingTimer
  /\ reconnectDelay' = w.reconnectDelay
  /\ stopped' = w.stopped
  /\ sockets' = w.sockets
  /\ timeouts' = w.timeouts
  /\ intervals' = w.intervals
  /\ delays' = w.delays
  /\ failedBeforeOpen' = w.failedBeforeOpen
  /\ attempts' = w.attempts
  /\ discarded' = w.discarded
  /\ unhandled' = w.unhandled
  /\ urlOk' = urlOk

NoSocket == [readyState |-> "CLOSED", recv |-> {}, sent |-> {}, tagged |-> <<>>]
NewSocket ==
  [readyState |-> "CONNECTING", recv |-> {}, sent |-> {}, tagged |-> <<>>]

LiveSockets(w) == {s \in Slots : w.sockets[s].readyState # "CLOSED"}

\* WebSocket.close(): a socket that is connecting or open starts closing; its
\* close event comes later, as a task of its own.
CloseSocket(w, s) ==
  IF w.sockets[s].readyState \in {"CONNECTING", "OPEN"}
  THEN [w EXCEPT !.sockets[s].readyState = "CLOSING"]
  ELSE w

\* clearTimers()
ClearTimers(w) ==
  [w EXCEPT !.timeouts = @ \ {w.reconnectTimer},
            !.reconnectTimer = Null,
            !.intervals = @ \ {w.pingTimer},
            !.pingTimer = Null]

\* Mutant: the doubling without the ceiling.
NextDelayNoCap(d) == d * 2

\* The next delay: Math.min(this.reconnectDelay * 2, 30_000)
NextDelay(d) == Min(d * 2, MaxDelay)

\* scheduleReconnect()
ScheduleReconnect(w) ==
  IF w.stopped THEN w
  ELSE LET delay == w.reconnectDelay
           t == Lowest(TimeoutIds \ w.timeouts)
       IN [w EXCEPT !.reconnectDelay = NextDelay(w.reconnectDelay),
                    !.reconnectTimer = t,
                    !.timeouts = @ \cup {t},
                    !.delays = Append(@, delay)]

\* connect()
Connect(w) ==
  IF w.stopped THEN w
  ELSE LET a == [w EXCEPT !.attempts = 1 - @]
           s == Lowest(Slots \ LiveSockets(w))
       IN IF ~urlOk
          THEN ScheduleReconnect(a)
          ELSE [a EXCEPT !.ws = s, !.sockets[s] = NewSocket]

\* send(msg): dropped unless this.ws is an open socket. id is the id the
\* message carries, Null for the auth message, which carries none.
Send(w, type, id) ==
  IF w.ws = Null \/ w.sockets[w.ws].readyState # "OPEN" THEN w
  ELSE [w EXCEPT !.sockets[w.ws].sent = @ \cup {type},
                 !.sockets[w.ws].tagged =
                    IF id = Null THEN @
                    ELSE Append(@, [type |-> type, id |-> id])]

\* subscribeEvents()
SubscribeEvents(w) ==
  LET x == [w EXCEPT !.msgId = @ + 1]
  IN Send(x, "subscribe_events", x.msgId)

\* startPing()
StartPing(w) ==
  LET i == Lowest(IntervalIds \ w.intervals)
  IN [w EXCEPT !.pingTimer = i, !.intervals = @ \cup {i}]

\* The reaction to auth_invalid: this.stopped = true; this.ws?.close()
AuthInvalid(w) ==
  LET x == [w EXCEPT !.stopped = TRUE]
  IN IF x.ws = Null THEN x ELSE CloseSocket(x, x.ws)

\* Mutant: whatever is not part of the handshake ends the session.
HandleMessageStrict(w, type) ==
  CASE type = "auth_required" -> Send(w, "auth", Null)
    [] type = "auth_ok" -> StartPing(SubscribeEvents(w))
    [] OTHER -> AuthInvalid(w)

\* handleMessage(msg), the cases that never suspend
HandleMessage(w, type) ==
  CASE type = "auth_required" -> Send(w, "auth", Null)
    [] type = "auth_ok" -> StartPing(SubscribeEvents(w))
    [] type = "auth_invalid" -> AuthInvalid(w)
    [] OTHER -> w

\* stop()
StopService(w) ==
  LET c == ClearTimers([w EXCEPT !.stopped = TRUE])
  IN IF c.ws = Null THEN c
     ELSE [CloseSocket(c, c.ws) EXCEPT !.ws = Null]

\* Mutant: an open that leaves the backoff delay as it is.
OnOpenKeepsDelay(w) == w

\* ws.onopen
OnOpen(w) == [w EXCEPT !.reconnectDelay = InitialDelay]

\* Mutant: a close that cleans up and schedules nothing.
OnCloseNoReconnect(w) == [ClearTimers(w) EXCEPT !.ws = Null]

\* ws.onclose
OnClose(w) == ScheduleReconnect([ClearTimers(w) EXCEPT !.ws = Null])

\* The reconnect timer's callback
OnReconnectTimer(w) ==
  Connect([w EXCEPT !.reconnectTimer = Null, !.msgId = 0])

\* Mutant: the ping reuses the last id.
OnPingTimerSameId(w) == Send(w, "ping", w.msgId)

\* The keepalive interval's callback
OnPingTimer(w) ==
  LET x == [w EXCEPT !.msgId = @ + 1]
  IN Send(x, "ping", x.msgId)

(***************************************************************************)
(* Messages the server can send.                                           *)
(***************************************************************************)
ControlTypes ==
  {"auth_required", "auth_ok", "auth_invalid", "result", "pong", "unparsable"}
Tracked == {"auth_required", "auth_ok", "auth_invalid"}

InitSession ==
  /\ ws = Null
  /\ msgId = 0
  /\ reconnectTimer = Null
  /\ pingTimer = Null
  /\ reconnectDelay = InitialDelay
  /\ stopped = FALSE
  /\ urlOk \in BOOLEAN
  /\ sockets = [s \in Slots |-> NoSocket]
  /\ timeouts = {}
  /\ intervals = {}
  /\ handlers = <<>>
  /\ received = 0
  /\ ignored = FALSE
  /\ delays = <<>>
  /\ failedBeforeOpen = FALSE
  /\ attempts = 0
  /\ discarded = FALSE
  /\ unhandled = FALSE
  /\ overlap = FALSE

\* Nothing has called the functions of the store module.
NoCalls == matchCall = <<>> /\ ops = <<>>

\* The tools are registered with the default configuration and not called.
IdleTools ==
  /\ client = DefaultClient
  /\ requests = <<>>
  /\ svcCalls = <<>>
  /\ pluginContextConfig = <<>>
  /\ configFile = NoConfigFile
  /\ ctxCalls = <<>>

\* The plugin is loaded with some configuration, over whatever files earlier
\* runs left.
Init ==
  /\ InitSession
  /\ NoCalls
  /\ store \in InitialFiles
  /\ \E b \in BlockedConfigs, w \in WritableConfigs : client = NewClient(b, w)
  /\ requests = <<>>
  /\ svcCalls = <<>>
  /\ pluginContextConfig \in PluginContextConfigs
  /\ configFile \in InitialConfigFiles
  /\ ctxCalls = <<>>

\* The session is constructed over whatever store file earlier runs left.
InitEvents == InitSession /\ NoCalls /\ IdleTools /\ store \in InitialFiles

\* The connection alone: the store plays no part in it.
InitConn == InitSession /\ NoCalls /\ IdleTools /\ store = MissingFile

(***************************************************************************)
(* Host calls.                                                             *)
(***************************************************************************)
\* start(); the host starts at most as many connections as the model has room for
Start ==
  /\ Cardinality(LiveSockets(World)) + Cardinality(timeouts) < MaxSockets
  /\ urlOk \/ Len(delays) < MaxBackoff
  /\ Becomes(Connect([World EXCEPT !.stopped = FALSE]))
  /\ UNCHANGED <<eventVars, callVars, toolVars>>

\* stop()
Stop ==
  /\ Becomes(StopService(World))
  /\ UNCHANGED <<eventVars, callVars, toolVars>>

(***************************************************************************)
(* Socket and timer callbacks.                                             *)
(***************************************************************************)
SocketOpen(s) ==
  /\ sockets[s].readyState = "CONNECTING"
  /\ Becomes(OnOpen([World EXCEPT !.sockets[s].readyState = "OPEN",
                                  !.failedBeforeOpen = (delays # <<>>),
                                  !.delays = <<>>]))
  /\ UNCHANGED <<eventVars, callVars, toolVars>>

SocketClose(s) ==
  /\ sockets[s].readyState # "CLOSED"
  /\ stopped \/ Len(delays) < MaxBackoff
  /\ Becomes(OnClose([World EXCEPT !.sockets[s] = NoSocket]))
  /\ UNCHANGED <<eventVars, callVars, toolVars>>

\* ws.onerror only logs
SocketError(s) ==
  /\ sockets[s].readyState # "CLOSED"
  /\ UNCHANGED vars

ReconnectFire(t) ==
  /\ t \in timeouts
  /\ urlOk \/ stopped \/ Len(delays) < MaxBackoff
  /\ Becomes(OnReconnectTimer([World EXCEPT !.timeouts = @ \ {t}]))
  /\ UNCHANGED <<eventVars, callVars, toolVars>>

PingFire(i) ==
  /\ i \in intervals
  /\ msgId < MaxMsgId
  /\ Becomes(OnPingTimer(World))
  /\ UNCHANGED <<eventVars, callVars, toolVars>>

\* ws.onmessage with a handshake, result, pong or unparsable payload
OnControlMessage(s, type) ==
  /\ sockets[s].readyState = "OPEN"
  /\ type = "auth_ok" =>
       /\ msgId < MaxMsgId
       /\ Cardinality(intervals) < MaxIntervals
  /\ Becomes(HandleMessage(
       [World EXCEPT !.sockets[s].recv = @ \cup ({type} \cap Tracked),
                     !.discarded = @ \/ type \notin Tracked], type))
  /\ UNCHANGED <<eventVars, callVars, toolVars>>

(***************************************************************************)
(* The rule store and the handling of state-change events.                 *)
(***************************************************************************)
\* JavaScript truthiness of an optional string field: unset and "" are falsy
Truthy(x) == x # Unset /\ x # ""

\* Mutant: the comparison of the two states is left out.
MatchesWatcherAnyStates(w, entityId, oldState, newState) ==
  IF w.entityId # entityId THEN FALSE
  ELSE IF Truthy(w.fromState) /\ w.fromState # oldState THEN FALSE
  ELSE IF Truthy(w.toState) /\ w.toState # newState THEN FALSE
  ELSE TRUE

\* matchesWatcher(watcher, entityId, oldState, newState)
MatchesWatcher(w, entityId, oldState, newState) ==
  IF w.entityId # entityId THEN FALSE
  ELSE IF oldState = newState THEN FALSE
  ELSE IF Truthy(w.fromState) /\ w.fromState # oldState THEN FALSE
  ELSE IF Truthy(w.toState) /\ w.toState # newState THEN FALSE
  ELSE TRUE

\* watchers.filter((w) => matchesWatcher(w, entity_id, oldStateStr, newStateStr))
Matched(watchers, entityId, oldState, newState) ==
  LET Test(w) == MatchesWatcher(w, entityId, oldState, newState)
  IN SelectSeq(watchers, Test)

\* Mutant: the loop ends at the first delivery that fails.
DeliveriesUntilFailure(matched, outs) ==
  LET failed == {i \in 1..Len(matched) : ~outs[i]}
      last == IF failed = {} THEN Len(matched) ELSE Lowest(failed)
  IN [i \in 1..last |-> [id |-> matched[i].id, ok |-> outs[i]]]

\* The loop over the matched rules: one Delivery Sink call per rule, in order,
\* whose failure is caught and logged; outs[i] tells whether call i succeeded.
Deliveries(matched, outs) ==
  [i \in 1..Len(matched) |-> [id |-> matched[i].id, ok |-> outs[i]]]

\* Mutant: every matched rule is retired, recurring ones too.
FiredIds(matched) == {matched[i].id : i \in 1..Len(matched)}

\* new Set(matched.filter((w) => w.oneShot).map((w) => w.id))
FiredOneShotIds(matched) ==
  {matched[i].id : i \in {j \in 1..Len(matched) : matched[j].oneShot}}

\* Mutant: the write keeps the fired rules.
RemainingKeepsFired(watchers, fired) == watchers

\* watchers.filter((w) => !firedOneShotIds.has(w.id))
Remaining(watchers, fired) ==
  LET Keep(w) == w.id \notin fired
  IN SelectSeq(watchers, Keep)

\* The state-change events the server can push. A snapshot is a state or absent.
EventData ==
  [entity_id : Entities, old_state : States \cup {Absent},
   new_state : States \cup {Absent}]

\* Mutant: only the comparison of the two states is made.
IsTransitionAnySnapshot(d) == d.old_state # d.new_state

\* The checks at the top of handleStateChanged: both snapshots present and
\* their states different.
IsTransition(d) ==
  /\ d.old_state # Absent
  /\ d.new_state # Absent
  /\ d.old_state # d.new_state

Running == {e \in DOMAIN handlers : handlers[e].phase \in {"loading", "saving"}}

\* The store calls that are suspended on the file.
Busy == {o \in DOMAIN ops : ops[o].phase \in {"reading", "writing"}}

\* An invocation of handleStateChanged that has reached its store read.
\* after is the store calls that had returned when the event was received.
NewHandler(s, d) ==
  [seq |-> received + 1, sock |-> s, entity_id |-> d.entity_id,
   oldState |-> d.old_state, newState |-> d.new_state, phase |-> "loading",
   watchers |-> <<>>, key |-> FALSE, delivered |-> <<>>,
   after |-> {o \in DOMAIN ops : ops[o].phase \in {"done", "failed"}}]

\* Mutant: the newest event is put ahead of the earlier ones.
StartHandlerFirst(hs, h) == <<h>> \o hs

\* The handlers in the order they were started.
StartHandler(hs, h) == Append(hs, h)

\* ws.onmessage with a state_changed event: handleMessage is called and not
\* awaited; handleStateChanged runs up to its store read.
OnEvent(s, d) ==
  /\ sockets[s].readyState = "OPEN"
  /\ IF IsTransition(d)
     THEN /\ received < MaxEvents
          /\ handlers' = StartHandler(handlers, NewHandler(s, d))
          /\ received' = received + 1
          /\ overlap' = (overlap \/ Running # {} \/ Busy # {})
          /\ UNCHANGED ignored
     ELSE /\ ignored' = TRUE
          /\ UNCHANGED <<handlers, received, overlap>>
  /\ UNCHANGED <<store, connVars, callVars, toolVars>>

\* Mutant: the delivery loop has no try/catch, so that a failing delivery ends
\* the handler.
LoadDoneAbortsOnFailure(e, key, outs) ==
  /\ e \in DOMAIN handlers
  /\ handlers[e].phase = "loading"
  /\ LET h == handlers[e]
         watchers == LoadWatchers(store)
         matched == Matched(watchers, h.entity_id, h.oldState, h.newState)
         failed == \E i \in DOMAIN outs : ~outs[i]
     IN /\ matched = <<>> => (~key /\ outs = <<>>)
        /\ ~key => outs = <<>>
        /\ key => DOMAIN outs = 1..Len(matched)
        /\ handlers' =
             [handlers EXCEPT ![e] =
                [h EXCEPT !.watchers = watchers,
                          !.key = key,
                          !.delivered =
                             IF key THEN DeliveriesUntilFailure(matched, outs)
                             ELSE <<>>,
                          !.phase =
                             IF key /\ ~failed /\ FiredOneShotIds(matched) # {}
                             THEN "saving" ELSE "done"]]
  /\ UNCHANGED <<store, received, ignored, overlap, connVars, callVars, toolVars>>

\* Mutant: the retirement does not depend on the session key.
LoadDoneRetiresWithoutKey(e, key, outs) ==
  /\ e \in DOMAIN handlers
  /\ handlers[e].phase = "loading"
  /\ LET h == handlers[e]
         watchers == LoadWatchers(store)
         matched == Matched(watchers, h.entity_id, h.oldState, h.newState)
     IN /\ matched = <<>> => (~key /\ outs = <<>>)
        /\ ~key => outs = <<>>
        /\ key => DOMAIN outs = 1..Len(matched)
        /\ handlers' =
             [handlers EXCEPT ![e] =
                [h EXCEPT !.watchers = watchers,
                          !.key = key,
                          !.delivered = IF key THEN Deliveries(matched, outs)
                                        ELSE <<>>,
                          !.phase = IF FiredOneShotIds(matched) # {}
                                    THEN "saving" ELSE "done"]]
  /\ UNCHANGED <<store, received, ignored, overlap, connVars, callVars, toolVars>>

\* The store read of handler e completes: the rest of handleStateChanged up
\* to its store write. key tells whether resolveSessionKey() returned a key.
LoadDone(e, key, outs) ==
  /\ e \in DOMAIN handlers
  /\ handlers[e].phase = "loading"
  /\ LET h == handlers[e]
         watchers == LoadWatchers(store)
         matched == Matched(watchers, h.entity_id, h.oldState, h.newState)
     IN /\ matched = <<>> => (~key /\ outs = <<>>)
        /\ ~key => outs = <<>>
        /\ key => DOMAIN outs = 1..Len(matched)
        /\ handlers' =
             [handlers EXCEPT ![e] =
                [h EXCEPT !.watchers = watchers,
                          !.key = key,
                          !.delivered = IF key THEN Deliveries(matched, outs)
                                        ELSE <<>>,
                          !.phase = IF key /\ FiredOneShotIds(matched) # {}
                                    THEN "saving" ELSE "done"]]
  /\ UNCHANGED <<store, received, ignored, overlap, connVars, callVars, toolVars>>

\* Mutant: the write is made from a fresh read of the file, so that it keeps
\* the retirements written since the handler loaded.
SaveDoneMerging(e, ok) ==
  /\ e \in DOMAIN handlers
  /\ handlers[e].phase = "saving"
  /\ LET h == handlers[e]
         matched == Matched(h.watchers, h.entity_id, h.oldState, h.newState)
     IN IF ok
        THEN /\ store' = SaveWatchers(store, Remaining(LoadWatchers(store),
                                                       FiredOneShotIds(matched)))
             /\ handlers' = [handlers EXCEPT ![e].phase = "done"]
        ELSE /\ store' = store
             /\ handlers' = [handlers EXCEPT ![e].phase = "rejected"]
  /\ UNCHANGED <<received, ignored, overlap, connVars, callVars, toolVars>>

\* The store write of handler e completes. When it succeeded the handler logs
\* the retirement and returns. When it failed (mkdir or writeFile rejected,
\* the file left as it was) the await throws: handleStateChanged has no
\* try/catch around it, handleMessage has none around its await, and
\* onmessage called handleMessage with void, so the rejection is caught and
\* logged by nothing in the session; the handler is left "rejected".
SaveDone(e, ok) ==
  /\ e \in DOMAIN handlers
  /\ handlers[e].phase = "saving"
  /\ LET h == handlers[e]
         matched == Matched(h.watchers, h.entity_id, h.oldState, h.newState)
     IN IF ok
        THEN /\ store' = SaveWatchers(store, Remaining(h.watchers,
                                                       FiredOneShotIds(matched)))
             /\ handlers' = [handlers EXCEPT ![e].phase = "done"]
        ELSE /\ store' = store
             /\ handlers' = [handlers EXCEPT ![e].phase = "rejected"]
  /\ UNCHANGED <<received, ignored, overlap, connVars, callVars, toolVars>>

Outcomes == {<<>>} \cup UNION {[1..n -> BOOLEAN] : n \in 1..Cardinality(Watchers)}

(***************************************************************************)
(* The store functions called by the tools: addWatcher, removeWatcher,     *)
(* loadWatchers, saveWatchers. Each call suspends on its file operations.  *)
(***************************************************************************)
\* type WatcherInput = Omit<Watcher, "id" | "createdAt">
AddInputs ==
  {[entityId |-> "light.bedroom", fromState |-> Unset, toState |-> "on",
    message |-> "m1", oneShot |-> TRUE],
   [entityId |-> "binary_sensor.door", fromState |-> "off", toState |-> Unset,
    message |-> "m4", oneShot |-> FALSE]}

\* randomUUID().slice(0, 8): eight hexadecimal digits; the model draws them
\* from an id that a stored rule can have and one that none has
UuidPrefixes == {"w1", "w4"}

\* new Date().toISOString()
Timestamps == {"t1", "t2"}

\* The ids the tools ask to remove: stored ones and one that never is
RemoveIds == {"w1", "w4", "w9"}

\* The arrays handed to saveWatchers
SaveArgs == {<<>>, <<W3>>, <<W2, W1>>}

\* The files the store functions can find.
StoreFiles ==
  {Stringify(q) : q \in {<<>>, <<W1>>, <<W1, W2>>, <<W2, W1, W3>>}}
    \cup BrokenFiles

\* { ...input, id: randomUUID().slice(0, 8), createdAt: new Date().toISOString() }
AddedRule(input, id, now) ==
  [k \in RuleKeys |->
     IF k = "id" THEN id
     ELSE IF k = "createdAt" THEN now
     ELSE Property(input, k)]

\* Mutant: the array is replaced by the new rule alone.
PushAlone(watchers, w) == <<w>>

\* Mutant: the new rule is put in front (unshift).
PushFirst(watchers, w) == <<w>> \o watchers

\* watchers.push(watcher)
Push(watchers, w) == Append(watchers, w)

\* watchers.findIndex((w) => w.id === id): -1 when there is none
FindIndex(watchers, id) ==
  LET hits == {i \in DOMAIN watchers : watchers[i].id = id}
  IN IF hits = {} THEN -1 ELSE Lowest(hits)

\* Mutant: splice(idx + 1, 1), which drops the entry after the one found.
SpliceNext(watchers, idx) ==
  SubSeq(watchers, 1, idx) \o SubSeq(watchers, idx + 2, Len(watchers))

\* Mutant: splice(idx) with no count, which drops the rest of the array too.
SpliceToEnd(watchers, idx) == SubSeq(watchers, 1, idx - 1)

\* watchers.splice(idx, 1)
Splice(watchers, idx) ==
  SubSeq(watchers, 1, idx - 1) \o SubSeq(watchers, idx + 1, Len(watchers))

\* A call that has just been made. before is the file as the call found it.
NewOp(kind, phase) ==
  [kind |-> kind, phase |-> phase, input |-> <<>>, id |-> "",
   before |-> store, loaded |-> <<>>, watchers |-> <<>>, watcher |-> <<>>,
   returned |-> <<>>]

\* A call is made: it runs up to its first file operation.
Call(op) ==
  /\ Len(ops) < MaxOps
  /\ ops' = Append(ops, op)
  /\ overlap' = (overlap \/ Running # {} \/ Busy # {})
  /\ UNCHANGED <<store, handlers, received, ignored, connVars, matchCall, toolVars>>

\* addWatcher(stateDir, input) up to await loadWatchers
CallAdd(input) ==
  Call([NewOp("add", "reading") EXCEPT !.input = <<input>>])

\* removeWatcher(stateDir, id) up to await loadWatchers
CallRemove(id) ==
  Call([NewOp("remove", "reading") EXCEPT !.id = id])

\* loadWatchers(stateDir) up to await fs.readFile
CallLoad == Call(NewOp("load", "reading"))

\* saveWatchers(stateDir, watchers) up to await fs.mkdir / fs.writeFile
CallSave(watchers) ==
  Call([NewOp("save", "writing") EXCEPT !.watchers = watchers])

\* loadWatchers returns to a caller that wanted the rules
LoadReturns(o) ==
  /\ o \in DOMAIN ops
  /\ ops[o].kind = "load"
  /\ ops[o].phase = "reading"
  /\ ops' = [ops EXCEPT ![o].loaded = LoadWatchers(store),
                        ![o].returned = <<LoadWatchers(store)>>,
                        ![o].phase = "done"]
  /\ UNCHANGED <<eventVars, connVars, matchCall, toolVars>>

\* addWatcher from the return of loadWatchers up to await saveWatchers
AddRead(o, id, now) ==
  /\ o \in DOMAIN ops
  /\ ops[o].kind = "add"
  /\ ops[o].phase = "reading"
  /\ LET watchers == LoadWatchers(store)
         watcher == AddedRule(ops[o].input[1], id, now)
     IN ops' = [ops EXCEPT ![o].loaded = watchers,
                           ![o].id = id,
                           ![o].watcher = <<watcher>>,
                           ![o].watchers = Push(watchers, watcher),
                           ![o].phase = "writing"]
  /\ UNCHANGED <<eventVars, connVars, matchCall, toolVars>>

\* removeWatcher from the return of loadWatchers up to its return of false or
\* to await saveWatchers
RemoveRead(o) ==
  /\ o \in DOMAIN ops
  /\ ops[o].kind = "remove"
  /\ ops[o].phase = "reading"
  /\ LET watchers == LoadWatchers(store)
         idx == FindIndex(watchers, ops[o].id)
     IN ops' =
          IF idx < 0
          THEN [ops EXCEPT ![o].loaded = watchers,
                           ![o].returned = <<FALSE>>,
                           ![o].phase = "done"]
          ELSE [ops EXCEPT ![o].loaded = watchers,
                           ![o].watchers = Splice(watchers, idx),
                           ![o].phase = "writing"]
  /\ UNCHANGED <<eventVars, connVars, matchCall, toolVars>>

\* What a call returns once its saveWatchers has returned
Returned(op) ==
  CASE op.kind = "add" -> op.watcher
    [] op.kind = "remove" -> <<TRUE>>
    [] OTHER -> <<>>

\* The file write of a call completes, or fails and the call rejects
WriteDone(o, ok) ==
  /\ o \in DOMAIN ops
  /\ ops[o].phase = "writing"
  /\ IF ok
     THEN /\ store' = SaveWatchers(store, ops[o].watchers)
          /\ ops' = [ops EXCEPT ![o].returned = Returned(ops[o]),
                                ![o].phase = "done"]
     ELSE /\ store' = store
          /\ ops' = [ops EXCEPT ![o].phase = "failed"]
  /\ UNCHANGED <<handlers, received, ignored, overlap, connVars, matchCall, toolVars>>

InitStore == InitSession /\ NoCalls /\ IdleTools /\ store \in StoreFiles

NextStore ==
  \/ \E input \in AddInputs : CallAdd(input)
  \/ \E id \in RemoveIds : CallRemove(id)
  \/ CallLoad
  \/ \E watchers \in SaveArgs : CallSave(watchers)
  \/ \E o \in 1..MaxOps : LoadReturns(o)
  \/ \E o \in 1..MaxOps, id \in UuidPrefixes, now \in Timestamps :
        AddRead(o, id, now)
  \/ \E o \in 1..MaxOps : RemoveRead(o)
  \/ \E o \in 1..MaxOps, ok \in BOOLEAN : WriteDone(o, ok)

\* The store functions called in any order, two calls at most in flight.
SpecStore == InitStore /\ [][NextStore]_vars

(***************************************************************************)
(* matchesWatcher called on its own, as tools, tests and the session do.   *)
(***************************************************************************)
\* The values a state filter of a rule can have: not set, or any string
Filters == {Unset, "", "off", "on"}

\* The state strings of a transition
CallStates == {"", "off", "on"}

MatchRules ==
  [id : {"r1"}, entityId : Entities, fromState : Filters, toState : Filters,
   message : {"m"}, oneShot : {FALSE}, createdAt : {"t0"}]

\* The calls matchesWatcher(watcher, entityId, oldState, newState), not yet made
MatchCalls ==
  [watcher : MatchRules, entityId : Entities, oldState : CallStates,
   newState : CallStates, result : {<<>>}]

InitMatch ==
  /\ InitSession
  /\ IdleTools
  /\ store = MissingFile
  /\ ops = <<>>
  /\ matchCall \in MatchCalls

\* The call returns.
ApplyMatches ==
  /\ matchCall # <<>>
  /\ matchCall.result = <<>>
  /\ matchCall' =
        [matchCall EXCEPT !.result =
           <<MatchesWatcher(matchCall.watcher, matchCall.entityId,
                            matchCall.oldState, matchCall.newState)>>]
  /\ UNCHANGED <<connVars, eventVars, ops, toolVars>>

NextMatch == ApplyMatches

\* matchesWatcher over every rule and every transition of the model.
SpecMatch == InitMatch /\ [][NextMatch]_vars

(***************************************************************************)
(* HAClient.callService, as the tool ha_call_service calls it.             *)
(***************************************************************************)
\* isBlocked(entityId)
IsBlocked(entityId) == MatchesAnyPattern(entityId, client.blockedPatterns)

\* Mutant: whatever is not blocked can be written.
IsWritableUnlessBlocked(entityId) == ~IsBlocked(entityId)

\* isWritable(entityId): the domain is taken from the entity id
IsWritable(entityId) ==
  /\ ~IsBlocked(entityId)
  /\ ExtractDomain(entityId) \in client.writableDomains

\* The domain and the service of a call.
ServiceDomains == {Chars("light"), Chars("lock")}
Services == {"turn_on", "unlock"}

\* The data argument: not given, a setting, or an object that names an entity.
DataArgs ==
  {EmptyObject, [brightness |-> "255"]}
    \cup {[entity_id |-> e] : e \in EntityIds}

\* JSON.stringify({ entity_id: entityId, ...data }): the properties of data
\* come last and replace the ones of the same name.
RequestBody(entityId, data) ==
  [k \in {"entity_id"} \cup DOMAIN data |->
     IF k \in DOMAIN data THEN data[k] ELSE entityId]

NewCall(domain, service, entityId, data, phase) ==
  [domain |-> domain, service |-> service, entityId |-> entityId,
   data |-> data, phase |-> phase, success |-> FALSE, request |-> Null]

\* callService(domain, service, entityId, data) up to its request: the two
\* access checks, then the POST to /api/services/<domain>/<service>.
CallService(domain, service, entityId, data) ==
  /\ Len(svcCalls) < MaxSvcCalls
  /\ IF IsBlocked(entityId) \/ ~IsWritable(entityId)
     THEN /\ svcCalls' =
               Append(svcCalls,
                      NewCall(domain, service, entityId, data, "returned"))
          /\ UNCHANGED requests
     ELSE /\ requests' =
               Append(requests,
                      [domain |-> domain, service |-> service,
                       body |-> RequestBody(entityId, data)])
          /\ svcCalls' =
               Append(svcCalls,
                      [NewCall(domain, service, entityId, data, "requesting")
                         EXCEPT !.request = Len(requests) + 1])
  /\ UNCHANGED <<client, pluginContextConfig, configFile, ctxCalls>>
  /\ UNCHANGED <<connVars, eventVars, matchCall, ops>>

\* The request of call c completes: with a 2xx answer callService returns
\* success, otherwise request() throws and callService rejects.
ServiceResponse(c, ok) ==
  /\ c \in DOMAIN svcCalls
  /\ svcCalls[c].phase = "requesting"
  /\ svcCalls' = [svcCalls EXCEPT ![c].phase = IF ok THEN "returned" ELSE "threw",
                                  ![c].success = ok]
  /\ UNCHANGED <<client, requests, pluginContextConfig, configFile, ctxCalls>>
  /\ UNCHANGED <<connVars, eventVars, matchCall, ops>>

(***************************************************************************)
(* The tool ha_context_config.                                             *)
(***************************************************************************)
\* readContextConfig(stateDir): null (nothing) when the file cannot be read or
\* parsed, else the four properties with their defaults.
ReadContextConfig(f) ==
  IF f.kind # "object" THEN <<>>
  ELSE <<[enabled |-> Coalesce(Opt(f.json, "enabled"), <<TRUE>>)[1],
          entityPatterns |->
             Coalesce(Opt(f.json, "entityPatterns"), <<(<<"*">>)>>)[1],
          maxEntities |-> Coalesce(Opt(f.json, "maxEntities"), <<50>>)[1],
          groupByArea |-> Coalesce(Opt(f.json, "groupByArea"), <<TRUE>>)[1]]>>

\* x?.key
OptChain(x, key) == IF x = <<>> THEN <<>> ELSE Opt(x[1], key)

\* mergeContextConfig(userConfig, agentOverrides)
MergeContextConfig(userConfig, agentOverrides) ==
  LET Pick(key, default) ==
        Coalesce(Coalesce(OptChain(agentOverrides, key),
                          OptChain(userConfig, key)), <<default>>)[1]
  IN [enabled |-> Pick("enabled", TRUE),
      entityPatterns |-> Pick("entityPatterns", <<"*">>),
      maxEntities |-> Pick("maxEntities", 50),
      groupByArea |-> Pick("groupByArea", TRUE)]

\* writeContextConfig(stateDir, config): the JSON text of the object
WriteContextConfig(config) == ConfigFileOf(config)

\* The elements of a sequence that are not in it earlier.
RECURSIVE Distinct(_)
Distinct(q) ==
  IF q = <<>> THEN <<>>
  ELSE LET rest == Distinct(SubSeq(q, 1, Len(q) - 1))
           last == q[Len(q)]
       IN IF \E i \in DOMAIN rest : rest[i] = last THEN rest
          ELSE Append(rest, last)

\* [...new Set(iterable)] followed by add() of each element of toAdd; the
\* Set of an undefined iterable is empty.
SetAdd(iterable, toAdd) ==
  Distinct((IF iterable = <<>> THEN <<>> ELSE iterable[1]) \o toAdd)

\* The arguments of the tool: action, and the parameters given with it.
CtxInputs ==
  {[action |-> "get", params |-> EmptyObject]}
    \cup {[action |-> a, params |-> [watched_entities |-> <<p>>]] :
            a \in {"add_watch", "remove_watch", "set"}, p \in WatchPatterns}
    \cup {[action |-> "add_watch", params |-> EmptyObject],
          [action |-> "set", params |-> [enabled |-> FALSE]]}

\* The calls that had returned or thrown when a new call is made.
Finished == {c \in DOMAIN ctxCalls : ctxCalls[c].phase \in {"returned", "threw"}}

\* execute(params) up to its await of readContextConfig.
ContextConfigCall(input) ==
  /\ Len(ctxCalls) < MaxCtxCalls
  /\ ctxCalls' =
       Append(ctxCalls,
              [action |-> input.action, params |-> input.params,
               phase |-> "reading", after |-> Finished,
               reply |-> EmptyObject, updated |-> EmptyObject,
               wrote |-> FALSE])
  /\ UNCHANGED <<client, requests, svcCalls, pluginContextConfig, configFile>>
  /\ UNCHANGED <<connVars, eventVars, matchCall, ops>>

\* The object 'set' writes.
SetUpdate(params, current) ==
  JsonObject(
    [enabled |-> Coalesce(Opt(params, "enabled"), Opt(current, "enabled")),
     watchedEntities |-> Coalesce(Opt(params, "watched_entities"),
                                  Opt(current, "watchedEntities")),
     maxEntities |-> Coalesce(Opt(params, "max_entities"),
                              Opt(current, "maxEntities")),
     groupByArea |-> Coalesce(Opt(params, "group_by_area"),
                              Opt(current, "groupByArea"))])

\* The read of call c completes: execute merges the configuration and runs
\* the branch of its action, up to the await of writeContextConfig if the
\* branch has one. 'get' returns the merged configuration; an add or remove
\* without patterns returns a message; 'remove_watch' calls filter on
\* current.watchedEntities and throws when that is undefined.
ContextConfigRead(c) ==
  /\ c \in DOMAIN ctxCalls
  /\ ctxCalls[c].phase = "reading"
  /\ LET call == ctxCalls[c]
         current == MergeContextConfig(pluginContextConfig,
                                       ReadContextConfig(configFile))
         given == Coalesce(Opt(call.params, "watched_entities"), <<(<<>>)>>)[1]
         watched == Opt(current, "watchedEntities")
         Keep(p) == \A i \in DOMAIN given : given[i] # p
         Ends(phase, reply) ==
           ctxCalls' = [ctxCalls EXCEPT ![c].phase = phase, ![c].reply = reply]
         Writes(updated) ==
           ctxCalls' = [ctxCalls EXCEPT ![c].phase = "writing",
                                        ![c].updated = updated]
     IN CASE call.action = "get" -> Ends("returned", current)
          [] call.action = "set" -> Writes(SetUpdate(call.params, current))
          [] call.action = "add_watch" ->
               IF given = <<>> THEN Ends("returned", EmptyObject)
               ELSE Writes(Spread(current, "watchedEntities",
                                  SetAdd(watched, given)))
          [] call.action = "remove_watch" ->
               IF given = <<>> THEN Ends("returned", EmptyObject)
               ELSE IF watched = <<>> THEN Ends("threw", EmptyObject)
               ELSE Writes(Spread(current, "watchedEntities",
                                  SelectSeq(watched[1], Keep)))
  /\ UNCHANGED <<client, requests, svcCalls, pluginContextConfig, configFile>>
  /\ UNCHANGED <<connVars, eventVars, matchCall, ops>>

\* The write of call c completes: the file holds the updated object and the
\* tool returns its message; a failed write makes execute reject.
ContextConfigWritten(c, ok) ==
  /\ c \in DOMAIN ctxCalls
  /\ ctxCalls[c].phase = "writing"
  /\ IF ok
     THEN /\ configFile' = WriteContextConfig(ctxCalls[c].updated)
          /\ ctxCalls' = [ctxCalls EXCEPT ![c].phase = "returned",
                                          ![c].reply = ctxCalls[c].updated,
                                          ![c].wrote = TRUE]
     ELSE /\ configFile' = configFile
          /\ ctxCalls' = [ctxCalls EXCEPT ![c].phase = "threw"]
  /\ UNCHANGED <<client, requests, svcCalls, pluginContextConfig>>
  /\ UNCHANGED <<connVars, eventVars, matchCall, ops>>

\* The client of a configuration, before any call.
InitClient ==
  /\ InitSession
  /\ NoCalls
  /\ store = MissingFile
  /\ \E b \in BlockedConfigs, w \in WritableConfigs : client = NewClient(b, w)
  /\ requests = <<>>
  /\ svcCalls = <<>>
  /\ pluginContextConfig = <<>>
  /\ configFile = NoConfigFile
  /\ ctxCalls = <<>>

NextClient ==
  \/ \E domain \in ServiceDomains, service \in Services,
        entityId \in EntityIds, data \in DataArgs :
        CallService(domain, service, entityId, data)
  \/ \E c \in 1..MaxSvcCalls, ok \in BOOLEAN : ServiceResponse(c, ok)

\* callService under every configuration of the access rules.
SpecClient == InitClient /\ [][NextClient]_vars

\* The tool registered over whatever file earlier runs left.
InitContext ==
  /\ InitSession
  /\ NoCalls
  /\ store = MissingFile
  /\ client = DefaultClient
  /\ requests = <<>>
  /\ svcCalls = <<>>
  /\ pluginContextConfig \in PluginContextConfigs
  /\ configFile \in InitialConfigFiles
  /\ ctxCalls = <<>>

NextContext ==
  \/ \E input \in CtxInputs : ContextConfigCall(input)
  \/ \E c \in 1..MaxCtxCalls : ContextConfigRead(c)
  \/ \E c \in 1..MaxCtxCalls, ok \in BOOLEAN : ContextConfigWritten(c, ok)

\* ha_context_config called by the agent.
SpecContext == InitContext /\ [][NextContext]_vars

\* start(), called by the host once.
StartOnce == ws = Null /\ Start

(***************************************************************************)
(* Payloads that parse as JSON and are not one of the protocol's messages. *)
(***************************************************************************)
\* JSON.parse("null")
JsonNull == [json |-> "null"]

\* What JSON.parse returns for the payloads the server is not expected to
\* send: null, an object without type, a message of a type the switch has no
\* case for, and event messages without event, of another event type, and
\* of type state_changed without data.
Payloads ==
  {JsonNull,
   EmptyObject,
   [type |-> "zha_event"],
   [type |-> "event"],
   [type |-> "event", event |-> [event_type |-> "call_service"]],
   [type |-> "event", event |-> [event_type |-> "state_changed"]]}

\* const { entity_id, old_state, new_state } = event.data throws a TypeError
\* when event.data is undefined.
HandleStateChangedThrows(event) == Opt(event, "data") = <<>>

\* handleMessage(msg) for these payloads: whether the promise it returns is
\* rejected. switch (msg.type) throws a TypeError when msg is null; the case
\* "event" awaits handleStateChanged when msg.event?.event_type is
\* "state_changed"; a type without a case does nothing.
HandleMessageRejects(msg) ==
  IF msg = JsonNull THEN TRUE
  ELSE IF Opt(msg, "type") # <<"event">> THEN FALSE
  ELSE IF OptChain(Opt(msg, "event"), "event_type") # <<"state_changed">>
       THEN FALSE
  ELSE HandleStateChangedThrows(msg.event)

\* ws.onmessage: JSON.parse succeeds, handleMessage is called and not
\* awaited, and the try block catches only what is thrown before it returns
\* its promise.
OnMessage(w, msg) ==
  [w EXCEPT !.unhandled = @ \/ HandleMessageRejects(msg)]

\* ws.onmessage with one of these payloads
OnPayload(s, msg) ==
  /\ sockets[s].readyState = "OPEN"
  /\ Becomes(OnMessage(World, msg))
  /\ UNCHANGED <<eventVars, callVars, toolVars>>

\* The handshake messages.
Handshake == {"auth_required", "auth_ok"}

NextShapes ==
  \/ StartOnce
  \/ Stop
  \/ \E s \in Slots : SocketOpen(s)
  \/ \E s \in Slots : SocketClose(s)
  \/ \E i \in IntervalIds : PingFire(i)
  \/ \E s \in Slots, type \in Handshake : OnControlMessage(s, type)
  \/ \E s \in Slots, msg \in Payloads : OnPayload(s, msg)

NextConn ==
  \/ Start
  \/ Stop
  \/ \E s \in Slots : SocketOpen(s)
  \/ \E s \in Slots : SocketClose(s)
  \/ \E s \in Slots : SocketError(s)
  \/ \E t \in TimeoutIds : ReconnectFire(t)
  \/ \E i \in IntervalIds : PingFire(i)
  \/ \E s \in Slots, type \in ControlTypes : OnControlMessage(s, type)

NextEvents ==
  \/ Start
  \/ \E s \in Slots : SocketOpen(s)
  \/ \E s \in Slots, d \in EventData : OnEvent(s, d)
  \/ \E e \in 1..MaxEvents, key \in BOOLEAN, outs \in Outcomes :
        LoadDone(e, key, outs)
  \/ \E e \in 1..MaxEvents, ok \in BOOLEAN : SaveDone(e, ok)

Next ==
  \/ NextConn
  \/ NextEvents
  \/ NextStore
  \/ NextMatch
  \/ NextClient
  \/ NextContext
  \/ NextShapes

\* The connection: start, stop, handshake, keepalive, reconnect.
SpecConn == InitConn /\ [][NextConn]_vars

\* The events pushed on the connections and the rule store.
SpecEvents == InitEvents /\ [][NextEvents]_vars

\* The session is stopped while events are being handled.
InitHalt ==
  /\ InitSession
  /\ NoCalls
  /\ IdleTools
  /\ store \in {Stringify(<<W1, W2>>), Stringify(<<W3>>)}

NextHalt ==
  \/ Start
  \/ Stop
  \/ \E s \in Slots : SocketOpen(s)
  \/ \E s \in Slots, d \in EventData : OnEvent(s, d)
  \/ \E e \in 1..MaxEvents, key \in BOOLEAN, outs \in Outcomes :
        LoadDone(e, key, outs)
  \/ \E e \in 1..MaxEvents, ok \in BOOLEAN : SaveDone(e, ok)

\* Events, with stop() called at any point.
SpecHalt == InitHalt /\ [][NextHalt]_vars

\* The tools add and remove rules while the session handles events.
InitMixed ==
  /\ InitSession
  /\ NoCalls
  /\ IdleTools
  /\ urlOk
  /\ store = Stringify(<<W1, W3>>)

\* The events of the interleavings: the light goes on, the door opens.
MixedEvents ==
  {[entity_id |-> "light.bedroom", old_state |-> "off", new_state |-> "on"],
   [entity_id |-> "binary_sensor.door", old_state |-> "off",
    new_state |-> "on"]}

\* Every delivery succeeds.
Delivered == {<<>>} \cup {[i \in 1..n |-> TRUE] : n \in 1..Cardinality(Watchers)}

NextMixed ==
  \/ StartOnce
  \/ \E s \in Slots : SocketOpen(s)
  \/ \E s \in Slots, d \in MixedEvents : OnEvent(s, d)
  \/ \E e \in 1..MaxEvents, key \in BOOLEAN, outs \in Delivered :
        LoadDone(e, key, outs)
  \/ \E e \in 1..MaxEvents : SaveDone(e, TRUE)
  \/ \E input \in AddInputs : CallAdd(input)
  \/ \E id \in RemoveIds : CallRemove(id)
  \/ \E o \in 1..MaxOps, id \in UuidPrefixes : AddRead(o, id, "t1")
  \/ \E o \in 1..MaxOps : RemoveRead(o)
  \/ \E o \in 1..MaxOps : WriteDone(o, TRUE)

SpecMixed == InitMixed /\ [][NextMixed]_vars

\* The server sends payloads that are not messages of the protocol.
SpecShapes == InitConn /\ [][NextShapes]_vars

\* The whole session.
Spec == Init /\ [][Next]_vars

\* The part of the connection that decides whether the session keeps trying:
\* the handshake that succeeds and the keepalive touch neither the stopped
\* flag, nor the readiness of a socket, nor a reconnect timer.
NextLive ==
  \/ Start
  \/ Stop
  \/ \E s \in Slots : SocketOpen(s)
  \/ \E s \in Slots : SocketClose(s)
  \/ \E t \in TimeoutIds : ReconnectFire(t)
  \/ \E s \in Slots : OnControlMessage(s, "auth_invalid")

\* The event loop runs the callback of every timer that stays pending.
SpecLive ==
  InitConn /\ [][NextLive]_vars /\ WF_vars(\E t \in TimeoutIds : ReconnectFire(t))

(***************************************************************************)
(* What the claims speak of, stated without the operators of the model.    *)
(***************************************************************************)
\* A rule matches an event as section 4.1 of the specification words it.
SpecMatches(w, h) ==
  /\ w.entityId = h.entity_id
  /\ h.oldState # h.newState
  /\ w.fromState = Unset \/ w.fromState = h.oldState
  /\ w.toState = Unset \/ w.toState = h.newState

\* The ids of a sequence of rules or of deliveries, in order.
Ids(q) == [i \in DOMAIN q |-> q[i].id]

\* The rules of the store handler h loaded that match its event, in store order.
MatchedOf(h) == LET Test(w) == SpecMatches(w, h) IN SelectSeq(h.watchers, Test)

\* The store handler h loaded without its matched one-shot rules.
RetiredOf(h) ==
  LET Keep(w) == ~(SpecMatches(w, h) /\ w.oneShot) IN SelectSeq(h.watchers, Keep)

Handled(h) == h.phase \in {"saving", "done", "rejected"}

\* A store write of the event path has failed.
WriteFailed == \E e \in DOMAIN handlers : handlers[e].phase = "rejected"

\* The store a handler loaded holds a one-shot rule that matches its event.
HasMatchedOneShot(h) ==
  \E i \in DOMAIN h.watchers :
    SpecMatches(h.watchers[i], h) /\ h.watchers[i].oneShot

\* The number of Delivery Sink calls made for the rule with this id.
Calls(id) ==
  Cardinality({p \in (DOMAIN handlers) \X (1..Cardinality(Watchers)) :
                 /\ p[2] \in DOMAIN handlers[p[1]].delivered
                 /\ handlers[p[1]].delivered[p[2]].id = id})

\* The rules a load() made now would return.
Stored == LoadWatchers(store)

StoreIds == {Stored[i].id : i \in DOMAIN Stored}

C3_OneCallPerMatch ==
  \A e \in DOMAIN handlers :
    LET h == handlers[e]
    IN Handled(h) =>
         /\ h.key => Ids(h.delivered) = Ids(MatchedOf(h))
         /\ ~h.key => h.delivered = <<>>

\* Two rules matched; the first delivery failed and the second was still made.
C3_Witness ==
  \E e \in DOMAIN handlers :
    /\ handlers[e].phase = "done"
    /\ Len(handlers[e].delivered) = 2
    /\ ~handlers[e].delivered[1].ok
    /\ handlers[e].delivered[2].ok

(***************************************************************************)
(* C4                                                                      *)
(***************************************************************************)
\* C4 as claimed: while the session stays stopped no connection attempt is made
\* and no reconnect is scheduled, and when stop() returns no reconnect timer
\* and no keepalive timer is pending and the session holds no socket.
C4_StopQuiesces ==
  [][/\ (stopped /\ stopped') =>
          (attempts' = attempts /\ timeouts' \subseteq timeouts)
     /\ Stop => (timeouts' = {} /\ intervals' = {} /\ ws' = Null)]_vars

(***************************************************************************)
(* C5                                                                      *)
(***************************************************************************)
\* C5 as claimed: once auth_invalid was received on a connection, the session
\* is stopped until a later start() and that connection's socket is no longer
\* open; no connection attempt and no reconnect follows while it stays stopped.
C5_AuthInvalidIsFinal ==
  [][/\ \A s \in Slots :
          "auth_invalid" \in sockets'[s].recv => sockets'[s].readyState # "OPEN"
     /\ (stopped /\ stopped') =>
          (attempts' = attempts /\ timeouts' \subseteq timeouts)]_vars

(***************************************************************************)
(* C6                                                                      *)
(***************************************************************************)
\* C6: a socket that closes, or a constructor that throws, while the session
\* is not stopped leaves a reconnect timer that the session holds; and a
\* pending reconnect timer leads to a new connection attempt unless the
\* session is stopped first.
C6_KeepsReconnecting ==
  /\ [][(/\ ~stopped'
          /\ \/ \E s \in Slots : SocketClose(s)
             \/ (attempts' # attempts /\ ~urlOk))
         => (reconnectTimer' # Null /\ reconnectTimer' \in timeouts')]_vars
  /\ \A b \in {0, 1} :
       (/\ timeouts # {}
        /\ ~stopped
        /\ attempts = b
        /\ urlOk \/ Len(delays) < MaxBackoff)
         ~> (attempts # b \/ stopped)

\* A reconnect is pending after two failures in a row.
C6_Witness ==
  /\ ~stopped
  /\ reconnectTimer \in timeouts
  /\ Len(delays) = 2

(***************************************************************************)
(* C7                                                                      *)
(***************************************************************************)
\* The delay of the n-th reconnect in a row: 1, 2, 4, 8, 16, 30, 30, ... seconds.
RECURSIVE BackoffDelay(_)
BackoffDelay(n) ==
  IF n = 1 THEN InitialDelay
  ELSE IF 2 * BackoffDelay(n - 1) > MaxDelay THEN MaxDelay
  ELSE 2 * BackoffDelay(n - 1)

\* C7: the delays scheduled since the last open are 1, 2, 4, 8, 16, 30, 30, ...
\* seconds: non-decreasing and never above the ceiling.
C7_BackoffSequence ==
  \A i \in DOMAIN delays :
    /\ delays[i] = BackoffDelay(i)
    /\ delays[i] <= MaxDelay
    /\ i > 1 => delays[i - 1] <= delays[i]

\* Seven reconnects in a row: the ceiling was reached and kept.
C7_Witness ==
  delays = <<1000, 2000, 4000, 8000, 16000, 30000, 30000>>

(***************************************************************************)
(* C8                                                                      *)
(***************************************************************************)
\* C8: after an open the delay of the next reconnect is the initial one, so
\* the first reconnect scheduled since the last open used the initial delay.
C8_OpenResetsDelay ==
  /\ delays = <<>> => reconnectDelay = InitialDelay
  /\ delays # <<>> => delays[1] = InitialDelay

\* A socket opened after failed attempts, and the reconnect scheduled after
\* that open used the initial delay.
C8_Witness ==
  /\ failedBeforeOpen
  /\ delays = <<InitialDelay>>

(***************************************************************************)
(* C9                                                                      *)
(***************************************************************************)
\* C9 as claimed: on every connection the auth message is sent only after
\* auth_required was received on it, and subscribe_events and the pings only
\* after auth_ok was received on it.
C9_HandshakeOrdered ==
  \A s \in Slots :
    /\ "auth" \in sockets[s].sent => "auth_required" \in sockets[s].recv
    /\ "subscribe_events" \in sockets[s].sent => "auth_ok" \in sockets[s].recv
    /\ "ping" \in sockets[s].sent => "auth_ok" \in sockets[s].recv

C11_FailureDoesNotAbort ==
  \A e \in DOMAIN handlers :
    LET h == handlers[e]
        failed == {i \in DOMAIN h.delivered : ~h.delivered[i].ok}
    IN (Handled(h) /\ failed # {}) =>
         /\ Len(h.delivered) = Len(MatchedOf(h))
         /\ (/\ HasMatchedOneShot(h)
             /\ h.phase = "done"
             /\ ~overlap
             /\ e = Len(handlers))
            => (/\ Stored = RetiredOf(h)
                /\ \A i \in failed : h.watchers # <<>> =>
                     \A j \in DOMAIN h.watchers :
                       (h.watchers[j].id = h.delivered[i].id
                          /\ h.watchers[j].oneShot)
                         => h.delivered[i].id \notin StoreIds)

\* The delivery for the one-shot w1 failed, the one for w2 was still made, and
\* w1 is gone from the store.
C11_Witness ==
  /\ ~overlap
  /\ Len(handlers) = 1
  /\ handlers[1].phase = "done"
  /\ handlers[1].watchers = <<W1, W2>>
  /\ Ids(handlers[1].delivered) = <<"w1", "w2">>
  /\ ~handlers[1].delivered[1].ok
  /\ "w1" \notin StoreIds

(***************************************************************************)
(* C12                                                                     *)
(***************************************************************************)
\* An event as C12 words it: a snapshot is absent or null, or the two states
\* are equal.
NoTransition(old, new) == old = Absent \/ new = Absent \/ old = new

\* C12: receiving an event with an absent snapshot or with equal states starts
\* no handler and leaves the store file as it is, whatever it holds; so every
\* handler, and with it every delivery and every store write, belongs to an
\* event with two present and different states.
C12_IgnoredEntirely ==
  [][/\ \A s \in Slots, d \in EventData :
          (NoTransition(d.old_state, d.new_state) /\ OnEvent(s, d))
            => UNCHANGED <<store, handlers, received>>
     /\ \A e \in DOMAIN handlers' :
          ~NoTransition(handlers'[e].oldState, handlers'[e].newState)]_vars

\* An event was ignored while the store holds a rule for every entity, and
\* nothing was handled and nothing written.
C12_Witness ==
  /\ ignored
  /\ handlers = <<>>
  /\ Stored = <<W1, W2, W3>>

(***************************************************************************)
(* C13                                                                     *)
(***************************************************************************)
\* C13: a handler reaches its store write only when a one-shot rule matched
\* its event, and the store file changes only by the write of such a handler:
\* with no match, or only recurring matches, the file is left as it is.
C13_NoMatchNoWrite ==
  [][/\ \A e \in DOMAIN handlers' :
          handlers'[e].phase = "saving" => HasMatchedOneShot(handlers'[e])
     /\ store' # store =>
          \E e \in DOMAIN handlers :
            /\ handlers[e].phase = "saving"
            /\ handlers'[e].phase = "done"
            /\ HasMatchedOneShot(handlers[e])]_vars

\* Only the recurring w2 matched (the light went off): it was delivered and
\* the store still holds both rules.
C13_Witness ==
  /\ Len(handlers) = 1
  /\ handlers[1].phase = "done"
  /\ handlers[1].watchers = <<W1, W2>>
  /\ Ids(handlers[1].delivered) = <<"w2">>
  /\ Stored = <<W1, W2>>

(***************************************************************************)
(* C14                                                                     *)
(***************************************************************************)
\* C14 as claimed: matches returns true exactly when the entity ids are equal,
\* the two states differ, fromState is unset or equal to the old state, and
\* toState is unset or equal to the new state.
C14_MatchesIff ==
  (matchCall # <<>> /\ matchCall.result # <<>>) =>
    (matchCall.result[1] <=>
       SpecMatches(matchCall.watcher,
                   [entity_id |-> matchCall.entityId,
                    oldState |-> matchCall.oldState,
                    newState |-> matchCall.newState]))

(***************************************************************************)
(* C15                                                                     *)
(***************************************************************************)
\* C15: a call of matches with equal old and new state returns false, whatever
\* the rule's filters are.
C15_NoMatchWithoutChange ==
  (/\ matchCall # <<>>
   /\ matchCall.result # <<>>
   /\ matchCall.oldState = matchCall.newState)
  => matchCall.result = <<FALSE>>

\* The rule asks for a change to "on" on its entity; from "on" to "on" it does
\* not match, although its filter is met.
C15_Witness ==
  /\ matchCall # <<>>
  /\ matchCall.watcher.entityId = matchCall.entityId
  /\ matchCall.watcher.fromState = Unset
  /\ matchCall.watcher.toState = "on"
  /\ matchCall.oldState = "on"
  /\ matchCall.newState = "on"
  /\ matchCall.result = <<FALSE>>

(***************************************************************************)
(* C16 to C20: the store functions, one call at a time.                    *)
(***************************************************************************)
\* The rules a file holds for its readers: those of a JSON array, else none.
RulesOf(f) ==
  IF f.kind = "array"
  THEN [i \in DOMAIN f.items |->
          [k \in RuleKeys |->
             IF k \in DOMAIN f.items[i] THEN f.items[i][k] ELSE Unset]]
  ELSE <<>>

IdsIn(q) == {q[i].id : i \in DOMAIN q}

\* The sequence q without its k-th entry.
Without(q, k) == SubSeq(q, 1, k - 1) \o SubSeq(q, k + 1, Len(q))

\* Call o is the latest call made.
Latest(o) == o = Len(ops)

\* The call after call o was a load and has returned.
LoadFollows(o) ==
  /\ o < Len(ops)
  /\ ops[o + 1].kind = "load"
  /\ ops[o + 1].phase = "done"

(***************************************************************************)
(* C16                                                                     *)
(***************************************************************************)
\* C16: a remove of an id the store does not hold never writes, returns false
\* and leaves the file as it was; a remove of an id the store holds returns
\* true and leaves the sequence it found without one entry, an entry of that
\* id, the others in their order.
C16_Remove ==
  \A o \in DOMAIN ops :
    LET op == ops[o]
        S == RulesOf(op.before)
    IN (op.kind = "remove" /\ ~overlap) =>
         /\ op.id \notin IdsIn(S) =>
              /\ op.phase \in {"reading", "done"}
              /\ op.phase = "done" =>
                   /\ op.returned = <<FALSE>>
                   /\ Latest(o) => store = op.before
         /\ (op.id \in IdsIn(S) /\ op.phase = "done") =>
              /\ op.returned = <<TRUE>>
              /\ Latest(o) =>
                   \E k \in DOMAIN S :
                     /\ S[k].id = op.id
                     /\ RulesOf(store) = Without(S, k)

\* w1 was removed from the store w2, w1, w3: w2 and w3 are left, in that order.
C16_Witness ==
  /\ ~overlap
  /\ Len(ops) = 1
  /\ ops[1].kind = "remove"
  /\ ops[1].id = "w1"
  /\ ops[1].phase = "done"
  /\ RulesOf(ops[1].before) = <<W2, W1, W3>>
  /\ RulesOf(store) = <<W2, W3>>

(***************************************************************************)
(* C17                                                                     *)
(***************************************************************************)
\* C17: an add that has returned, with no other store call or handler in its
\* way, returned a rule with the five supplied fields, a non-empty id and a
\* non-empty createdAt; the store is the sequence it found followed by that
\* rule; and a load made next returns a sequence that contains it.
C17_Add ==
  \A o \in DOMAIN ops :
    LET op == ops[o]
        S == RulesOf(op.before)
    IN (op.kind = "add" /\ op.phase = "done" /\ ~overlap) =>
         /\ Len(op.returned) = 1
         /\ LET r == op.returned[1]
                input == op.input[1]
            IN /\ r.entityId = input.entityId
               /\ r.fromState = input.fromState
               /\ r.toState = input.toState
               /\ r.message = input.message
               /\ r.oneShot = input.oneShot
               /\ r.id \notin {"", Unset}
               /\ r.createdAt \notin {"", Unset}
               /\ Latest(o) => RulesOf(store) = S \o <<r>>
               /\ LoadFollows(o) =>
                    \E i \in DOMAIN ops[o + 1].returned[1] :
                      ops[o + 1].returned[1][i] = r

\* A rule with no fromState was added to the store w1, w2, and the load made
\* next returned the three rules, the new one last.
C17_Witness ==
  /\ ~overlap
  /\ Len(ops) = 2
  /\ ops[1].kind = "add"
  /\ ops[1].phase = "done"
  /\ ops[1].input[1].fromState = Unset
  /\ RulesOf(ops[1].before) = <<W1, W2>>
  /\ LoadFollows(1)
  /\ ops[2].returned[1] = <<W1, W2>> \o ops[1].returned

(***************************************************************************)
(* C18                                                                     *)
(***************************************************************************)
\* C18: after a save of the sequence R has returned, with no other store call
\* in its way, the store holds exactly R and a load made next returns exactly
\* R, whatever the file was before.
C18_SaveThenLoad ==
  \A o \in DOMAIN ops :
    LET op == ops[o]
    IN (op.kind = "save" /\ op.phase = "done" /\ ~overlap) =>
         /\ Latest(o) => RulesOf(store) = op.watchers
         /\ LoadFollows(o) => ops[o + 1].returned = <<op.watchers>>

\* w2, w1 was saved over a file that held w1, w2, and a rule whose filters are
\* not set came back from the load as it was saved.
C18_Witness ==
  /\ ~overlap
  /\ Len(ops) = 2
  /\ ops[1].kind = "save"
  /\ ops[1].phase = "done"
  /\ RulesOf(ops[1].before) = <<W1, W2>>
  /\ LoadFollows(1)
  /\ ops[2].returned = <<(<<W2, W1>>)>>

(***************************************************************************)
(* C19                                                                     *)
(***************************************************************************)
\* C19: a load of a file that is missing, cannot be read, is not JSON or is
\* JSON but not an array never fails and returns the empty sequence.
C19_LoadFailsOpen ==
  \A o \in DOMAIN ops :
    LET op == ops[o]
    IN (/\ op.kind = "load"
        /\ op.before.kind \in {"missing", "unreadable", "garbage", "object"}
        /\ ~overlap) =>
         /\ op.phase \in {"reading", "done"}
         /\ op.phase = "done" => op.returned = <<(<<>>)>>

\* Two loads of a file that is not JSON returned the empty sequence.
C19_Witness ==
  /\ Len(ops) = 2
  /\ \A o \in 1..2 :
       /\ ops[o].kind = "load"
       /\ ops[o].phase = "done"
       /\ ops[o].before.kind = "garbage"
       /\ ops[o].before.items # <<>>
       /\ ops[o].returned = <<(<<>>)>>

(***************************************************************************)
(* C20                                                                     *)
(***************************************************************************)
\* C20 as claimed: no two rules of the store have the same id.
C20_UniqueIds ==
  \A i \in DOMAIN RulesOf(store), j \in DOMAIN RulesOf(store) :
    i # j => RulesOf(store)[i].id # RulesOf(store)[j].id

(***************************************************************************)
(* C21                                                                     *)
(***************************************************************************)
\* C21 as claimed: whenever a connection attempt is made the message-id counter
\* is zero, and a connection whose first id-tagged message is the subscribe
\* request carries id 1 in it.
C21_CounterZeroAtAttempt ==
  [][/\ attempts' # attempts => msgId' = 0
     /\ \A s \in Slots :
          (/\ sockets'[s].tagged # <<>>
           /\ sockets'[s].tagged[1].type = "subscribe_events")
            => sockets'[s].tagged[1].id = 1]_vars

(***************************************************************************)
(* C22                                                                     *)
(***************************************************************************)
\* C22: on every connection the ids of the id-tagged messages sent on it are
\* strictly increasing in send order.
C22_IdsIncrease ==
  \A s \in Slots :
    \A i \in DOMAIN sockets[s].tagged, j \in DOMAIN sockets[s].tagged :
      i < j => sockets[s].tagged[i].id < sockets[s].tagged[j].id

\* A connection on which the subscribe request went out with id 1 and a
\* keepalive ping with id 2.
C22_Witness ==
  \E s \in Slots :
    sockets[s].tagged = <<[type |-> "subscribe_events", id |-> 1],
                          [type |-> "ping", id |-> 2]>>

(***************************************************************************)
(* C23                                                                     *)
(***************************************************************************)
\* C23 as claimed: in every state stop() leaves the session stopped, with no
\* socket held and no timer pending, and a second stop() changes nothing.
C23_StopIdempotent ==
  LET once == StopService(World)
  IN /\ StopService(once) = once
     /\ once.stopped
     /\ once.ws = Null
     /\ once.timeouts = {}
     /\ once.intervals = {}

(***************************************************************************)
(* C24                                                                     *)
(***************************************************************************)
\* The payloads C24 speaks of.
Discardable == {"unparsable", "result", "pong"}

\* C24: receiving an unparsable payload, a result or a pong changes neither
\* the fields of the session, nor a socket (its readiness, what was sent on
\* it), nor a timer, nor the store file.
C24_DiscardedMessages ==
  [][\A s \in Slots, type \in Discardable :
       OnControlMessage(s, type) =>
         UNCHANGED <<ws, msgId, reconnectTimer, pingTimer, reconnectDelay,
                     stopped, sockets, timeouts, intervals, delays, store>>]_vars

\* Such a payload was received on an authenticated connection, which is still
\* open with its keepalive timer running.
C24_Witness ==
  /\ discarded
  /\ ~stopped
  /\ ws # Null
  /\ sockets[ws].readyState = "OPEN"
  /\ "subscribe_events" \in sockets[ws].sent
  /\ pingTimer \in intervals

(***************************************************************************)
(* C25                                                                     *)
(***************************************************************************)
\* C25 as claimed: a failing retirement write in the event path is caught and
\* logged by the session: no handler ends with its failure uncaught, and the
\* deliveries it made stand.
C25_WriteFailureLogged ==
  \A e \in DOMAIN handlers :
    /\ handlers[e].phase # "rejected"
    /\ (Handled(handlers[e]) /\ handlers[e].key)
         => Ids(handlers[e].delivered) = Ids(MatchedOf(handlers[e]))

(***************************************************************************)
(* C30                                                                     *)
(***************************************************************************)
\* The one-shot rules handler h delivered.
FiredBy(h) ==
  {h.delivered[i].id : i \in
     {j \in DOMAIN h.delivered :
        \E w \in Watchers : w.id = h.delivered[j].id /\ w.oneShot}}

\* Two handlers that read the same store, fired different one-shot rules of
\* it, and have both written their remainder.
LostRetirement(a, b) ==
  /\ a # b
  /\ handlers[a].phase = "done"
  /\ handlers[b].phase = "done"
  /\ handlers[a].watchers = handlers[b].watchers
  /\ FiredBy(handlers[a]) # {}
  /\ FiredBy(handlers[b]) # {}
  /\ FiredBy(handlers[a]) \cap FiredBy(handlers[b]) = {}

\* C30: when two handlers have read the same store, each has fired a one-shot
\* rule the other did not, and both have written, the store is the remainder
\* of one of them alone, so a rule that has fired is still in the store.
C30_LostRetirement ==
  \A a \in DOMAIN handlers, b \in DOMAIN handlers :
    (LostRetirement(a, b) /\ Len(handlers) = 2) =>
      /\ Stored \in {RetiredOf(handlers[a]), RetiredOf(handlers[b])}
      /\ (FiredBy(handlers[a]) \cup FiredBy(handlers[b])) \cap StoreIds # {}

\* The light and the door changed close together: both handlers read the
\* store holding w1 and w3, the first fired w1 and the second w3, and after
\* both writes one of the two fired rules is still stored.
C30_Witness ==
  /\ Len(handlers) = 2
  /\ LostRetirement(1, 2)
  /\ overlap
  /\ handlers[1].watchers = <<W1, W3>>
  /\ FiredBy(handlers[1]) = {"w1"}
  /\ FiredBy(handlers[2]) = {"w3"}
  /\ StoreIds \cap {"w1", "w3"} # {}

(***************************************************************************)
(* C26                                                                     *)
(***************************************************************************)
\* A glob pattern as the documentation words it: every character stands for
\* itself and the star for any run of characters.
RECURSIVE GlobMatches(_, _)
GlobMatches(pattern, value) ==
  IF pattern = <<>> THEN value = <<>>
  ELSE IF Head(pattern) = "*"
       THEN \/ GlobMatches(Tail(pattern), value)
            \/ value # <<>> /\ GlobMatches(pattern, Tail(value))
       ELSE /\ value # <<>>
            /\ Head(value) = Head(pattern)
            /\ GlobMatches(Tail(pattern), Tail(value))

\* The entity matches a pattern of blockedEntities.
BlockedEntity(entityId) ==
  \E i \in DOMAIN client.blockedPatterns :
    GlobMatches(client.blockedPatterns[i], entityId)

\* C26 as claimed: no service request sent to Home Assistant has a blocked
\* entity as the entity_id of its body.
C26_BlockedNeverWritten ==
  \A i \in DOMAIN requests : ~BlockedEntity(requests[i].body.entity_id)

(***************************************************************************)
(* C27                                                                     *)
(***************************************************************************)
\* C27 as claimed: every service request sent is for a service domain listed
\* in writableDomains, and a call whose domain argument is not listed returns
\* success=false without a request.
C27_OnlyListedDomains ==
  /\ \A i \in DOMAIN requests : requests[i].domain \in client.writableDomains
  /\ \A c \in DOMAIN svcCalls :
       svcCalls[c].domain \notin client.writableDomains =>
         /\ svcCalls[c].phase = "returned"
         /\ ~svcCalls[c].success
         /\ svcCalls[c].request = Null

(***************************************************************************)
(* C28                                                                     *)
(***************************************************************************)
\* C28: with writableDomains empty no service request is ever sent, and every
\* call of callService has returned success=false.
C28_ReadOnlyByDefault ==
  client.writableDomains = {} =>
    /\ requests = <<>>
    /\ \A c \in DOMAIN svcCalls :
         svcCalls[c].phase = "returned" /\ ~svcCalls[c].success

\* Nothing is writable and nothing is blocked: a call for the light and a call
\* whose data names the lock were both refused.
C28_Witness ==
  /\ client.writableDomains = {}
  /\ client.blockedPatterns = <<>>
  /\ Len(svcCalls) = 2
  /\ svcCalls[1].entityId = LightBed
  /\ svcCalls[1].domain = Chars("light")
  /\ svcCalls[2].data = [entity_id |-> LockDoor]
  /\ \A c \in DOMAIN svcCalls :
       svcCalls[c].phase = "returned" /\ ~svcCalls[c].success
  /\ requests = <<>>

(***************************************************************************)
(* C29                                                                     *)
(***************************************************************************)
\* The watched entity patterns of a configuration that 'get' reported, under
\* either name the program uses for them.
Reported(config) ==
  LET Under(key) ==
        IF key \in DOMAIN config
        THEN {config[key][i] : i \in DOMAIN config[key]} ELSE {}
  IN Under("watchedEntities") \cup Under("entityPatterns")

\* The patterns given to a call.
Given(call) ==
  IF "watched_entities" \in DOMAIN call.params
  THEN {call.params.watched_entities[i] :
          i \in DOMAIN call.params.watched_entities}
  ELSE {}

\* Call g is a 'get' that was made after call a had written and returned.
GetFollows(a, g) ==
  /\ ctxCalls[g].action = "get"
  /\ ctxCalls[g].phase = "returned"
  /\ a \in ctxCalls[g].after
  /\ ctxCalls[a].phase = "returned"
  /\ ctxCalls[a].wrote

\* C29 as claimed: a 'get' that follows a successful 'add_watch' reports the
\* added patterns, and one that follows a successful 'remove_watch' reports
\* none of the removed ones.
C29_ContextConfigKeeps ==
  \A a \in DOMAIN ctxCalls, g \in DOMAIN ctxCalls :
    GetFollows(a, g) =>
      /\ ctxCalls[a].action = "add_watch" =>
           Given(ctxCalls[a]) \subseteq Reported(ctxCalls[g].reply)
      /\ ctxCalls[a].action = "remove_watch" =>
           Given(ctxCalls[a]) \cap Reported(ctxCalls[g].reply) = {}

(***************************************************************************)
(* C31                                                                     *)
(***************************************************************************)
\* A socket of the session closes.
Disconnects == \E s \in Slots : SocketClose(s)

\* C31 as claimed: a keepalive timer is created only by the receipt of
\* auth_ok, a ping goes out only on a connection that has received auth_ok,
\* and when a socket has closed or stop() has run no keepalive timer is
\* active.
C31_KeepaliveOnlyAuthenticated ==
  [][/\ ~(intervals' \subseteq intervals) =>
          \E s \in Slots : OnControlMessage(s, "auth_ok")
     /\ \A s \in Slots :
          "ping" \in sockets'[s].sent => "auth_ok" \in sockets'[s].recv
     /\ (Stop \/ Disconnects) => intervals' = {}]_vars

(***************************************************************************)
(* C33                                                                     *)
(***************************************************************************)
\* The sockets that are connecting or open.
Live == {s \in Slots : sockets[s].readyState \in {"CONNECTING", "OPEN"}}

\* C33 as claimed: at most one socket of the session is connecting or open,
\* and it is the one the session references.
C33_OneLiveSocket ==
  /\ Cardinality(Live) <= 1
  /\ Live \subseteq {ws}

(***************************************************************************)
(* C38                                                                     *)
(***************************************************************************)
\* C38 as claimed: at most one keepalive timer and at most one reconnect timer
\* is active, and an active timer is the one whose handle the session holds.
C38_TimersHeld ==
  /\ Cardinality(intervals) <= 1
  /\ Cardinality(timeouts) <= 1
  /\ intervals \subseteq {pingTimer}
  /\ timeouts \subseteq {reconnectTimer}

(***************************************************************************)
(* C32                                                                     *)
(***************************************************************************)
\* C32 as claimed: a call of matches for a rule whose fromState is the empty
\* string returns true only when the old state is the empty string, and
\* likewise for toState and the new state.
C32_EmptyFilterConstrains ==
  (/\ matchCall # <<>>
   /\ matchCall.result = <<TRUE>>)
  => /\ matchCall.watcher.fromState = "" => matchCall.oldState = ""
     /\ matchCall.watcher.toState = "" => matchCall.newState = ""

(***************************************************************************)
(* C34                                                                     *)
(***************************************************************************)
\* C34 as claimed: while the session is stopped (stop() has returned and
\* start() was not called since) no handler makes a Delivery Sink call and
\* the store file is not written.
C34_QuietAfterStop ==
  [][stopped =>
       /\ store' = store
       /\ \A e \in DOMAIN handlers :
            handlers'[e].delivered = handlers[e].delivered]_vars

(***************************************************************************)
(* C35                                                                     *)
(***************************************************************************)
\* C35: when the store read of a handler completes, rules match its event and
\* no session key resolves, the handler ends there: it has made no Delivery
\* Sink call, it does not go on to the store write, and the file is as it
\* was, so the matched one-shot rules are still in it.
C35_NoKeyNoEffect ==
  [][\A e \in DOMAIN handlers :
       (/\ handlers[e].phase = "loading"
        /\ handlers'[e].phase # "loading"
        /\ ~handlers'[e].key
        /\ MatchedOf(handlers'[e]) # <<>>)
       => /\ handlers'[e].phase = "done"
          /\ handlers'[e].delivered = <<>>
          /\ store' = store
          /\ \A i \in DOMAIN handlers'[e].watchers :
               handlers'[e].watchers[i].id \in StoreIds']_vars

\* The light went on while no session key resolved: nothing was delivered
\* and the one-shot w1 stayed; it went on again with a key, and w1 fired.
C35_Witness ==
  /\ ~overlap
  /\ Len(handlers) = 2
  /\ handlers[1].phase = "done"
  /\ ~handlers[1].key
  /\ handlers[1].watchers = <<W1, W2>>
  /\ Ids(MatchedOf(handlers[1])) = <<"w1", "w2">>
  /\ handlers[1].delivered = <<>>
  /\ handlers[2].key
  /\ Ids(handlers[2].delivered) = <<"w1", "w2">>
(***************************************************************************)
(* C36                                                                     *)
(***************************************************************************)
\* The calls of removeWatcher that have returned true.
Removed ==
  {o \in DOMAIN ops : ops[o].kind = "remove" /\ ops[o].returned = <<TRUE>>}

\* The calls of addWatcher that gave their rule this id.
AddsOf(id) ==
  {a \in DOMAIN ops :
     ops[a].kind = "add" /\ ops[a].watcher # <<>> /\ ops[a].id = id}

\* The number of entries of q with this id.
CountId(q, id) == Cardinality({i \in DOMAIN q : q[i].id = id})

\* The handlers of the events received after call o had returned.
ReceivedAfter(o) == {e \in DOMAIN handlers : o \in handlers[e].after}

\* C36 as claimed: once remove(id) has returned true, and as long as nothing
\* is added, no rule with that id is in the store and none fires for an event
\* received afterwards, whatever the handlers that loaded the store before
\* the removal write later.
C36_RemovedStaysRemoved ==
  \A o \in Removed :
    (\A a \in DOMAIN ops : ops[a].kind = "remove") =>
      /\ ops[o].id \notin StoreIds
      /\ \A e \in ReceivedAfter(o) :
           CountId(handlers[e].delivered, ops[o].id) = 0

\* C36 amended: when the store calls and the event handlers run one at a
\* time, a remove(id) that has returned true has dropped one rule with that
\* id: the store, and the deliveries of each event received afterwards, hold
\* one rule with that id fewer than the removal loaded, apart from the rules
\* that later adds gave the same id.
C36_RemovedStaysRemovedSerial ==
  ~overlap =>
    \A o \in Removed :
      LET id == ops[o].id
          most == CountId(ops[o].loaded, id) - 1
                    + Cardinality({a \in AddsOf(id) : a > o})
      IN /\ CountId(Stored, id) <= most
         /\ \A e \in ReceivedAfter(o) :
              /\ CountId(handlers[e].watchers, id) <= most
              /\ CountId(handlers[e].delivered, id) <= most

\* remove("w1") returned true; then the light went on and w1 did not fire.
C36_Witness ==
  /\ ~overlap
  /\ Len(ops) = 1
  /\ ops[1].kind = "remove"
  /\ ops[1].id = "w1"
  /\ ops[1].returned = <<TRUE>>
  /\ Len(handlers) = 1
  /\ handlers[1].after = {1}
  /\ handlers[1].entity_id = "light.bedroom"
  /\ handlers[1].newState = "on"
  /\ handlers[1].phase = "done"
  /\ handlers[1].watchers = <<W3>>
  /\ handlers[1].delivered = <<>>
  /\ "w1" \notin StoreIds
(***************************************************************************)
(* C37                                                                     *)
(***************************************************************************)
\* The calls of addWatcher that have returned their rule.
Added ==
  {a \in DOMAIN ops : ops[a].kind = "add" /\ ops[a].returned # <<>>}

\* A handler had a session key and a matching one-shot rule with this id.
FiredOneShot(id) ==
  \E e \in DOMAIN handlers :
    /\ handlers[e].key
    /\ \E i \in DOMAIN handlers[e].watchers :
         LET w == handlers[e].watchers[i]
         IN w.id = id /\ w.oneShot /\ SpecMatches(w, handlers[e])

\* remove() was called with the id of the rule of add a, or a one-shot rule
\* with that id has fired: removal and retirement go by id.
Dropped(a) ==
  \/ \E o \in DOMAIN ops : ops[o].kind = "remove" /\ ops[o].id = ops[a].id
  \/ FiredOneShot(ops[a].id)

\* The rule that add a returned is in the store.
Kept(a) == \E i \in DOMAIN Stored : Stored[i] = ops[a].returned[1]

\* C37 as claimed: whatever interleaves with it, the rule a completed add()
\* returned is in the store as long as no remove() was called with its id and
\* no one-shot rule with its id has fired.
C37_AddedStays == \A a \in Added : ~Dropped(a) => Kept(a)

\* C37 amended: when the store calls and the event handlers run one at a
\* time, the rule a completed add() returned is in the store as long as no
\* remove() was called with its id and no one-shot rule with its id has
\* fired.
C37_AddedStaysSerial == ~overlap => \A a \in Added : ~Dropped(a) => Kept(a)

\* add() returned the lasting rule w4 for the door; then the door opened: w3
\* and w4 fired, w3 was retired and w4 is still in the store.
C37_Witness ==
  /\ ~overlap
  /\ Len(ops) = 1
  /\ Added = {1}
  /\ ops[1].id = "w4"
  /\ ~ops[1].returned[1].oneShot
  /\ Len(handlers) = 1
  /\ handlers[1].after = {1}
  /\ handlers[1].phase = "done"
  /\ Ids(handlers[1].delivered) = <<"w3", "w4">>
  /\ StoreIds = {"w1", "w4"}
  /\ Kept(1)
(***************************************************************************)
(* C39                                                                     *)
(***************************************************************************)
\* The fields of the service and its sockets and timers.
Connection ==
  <<ws, msgId, reconnectTimer, pingTimer, reconnectDelay, stopped, sockets,
    timeouts, intervals>>

\* C39 as claimed: a payload that parses as JSON and is not a message of the
\* protocol (null, an object without a known type, an event without event
\* data) is discarded: no unhandled error is raised, and the connection state
\* and the rule store are as they were.
C39_ShapelessDiscarded ==
  [][(\E s \in Slots, msg \in Payloads : OnPayload(s, msg))
       => /\ ~unhandled'
          /\ Connection' = Connection
          /\ store' = store]_vars
====
